---------------------------- MODULE Spec2Model ----------------------------
(***************************************************************************)
(* A model of ADBench's DataGenerator (src/data_generator.py).             *)
(*                                                                         *)
(* Arrays are sequences.  numpy indexes from 0, the model from 1; nothing  *)
(* below depends on the origin.  A feature matrix X is the sequence of its *)
(* rows, and a row is represented by an identifier: two entries are equal  *)
(* exactly when they are copies of the same row.  A float parameter is a   *)
(* rational <<num, den>> with den > 0, and products with it are exact (the *)
(* binary rounding of a double product is not represented).                *)
(*                                                                         *)
(* A draw of indices from numpy's global random generator is modelled by   *)
(* the set of all results it can return.  The state of that generator is   *)
(* rng = [seed, pos]: the seed last set and the number of draws made since *)
(* then.  A sampled row of the synthesizer is represented by the generator *)
(* state it was drawn in, so two sampled rows agree exactly when they were *)
(* drawn in the same state with the same parameters.                       *)
(***************************************************************************)
EXTENDS Integers, Sequences, FiniteSets, TLC

VARIABLES
    self,       \* the DataGenerator object's fields (__init__)
    rng,        \* the state of numpy's global random generator
    call,       \* SpecCalls: the method call made on the object, with its result
    pc,         \* generator(): the position reached
    args,       \* generator(): the arguments of the running call
    X, y,       \* generator(): the dataset (rows, labels)
    cols,       \* generator(): the columns of X
    X_train, y_train, X_test, y_test, cols_train, cols_test,
    part,       \* generator(): idx_normal, idx_anomaly, idx_labeled_anomaly, idx_unlabeled_anomaly
    log,        \* generator(): the seedings, draws and noise operators so far, in order
    raised,     \* generator(): the exception the call ended with, or None
    n_rows,     \* SpecSeed: len(y), of a dataset held by its size alone
    result      \* generator(): the returned record, or None

vars == <<self, rng, n_rows, call, pc, args, X, y, cols, X_train, y_train, X_test, y_test,
          cols_train, cols_test, part, log, raised, result>>

genVars == <<pc, args, X, y, cols, X_train, y_train, X_test, y_test,
             cols_train, cols_test, part, log, raised, result>>

None == "None"

-----------------------------------------------------------------------------
(* Bounds of the model *)

\* rows of an array handed to add_label_contamination called on its own
MaxOpRows == 3
\* rows of an array handed to add_duplicated_anomalies called on its own
MaxDupRows == 2
\* the largest duplicate_times of such a call
MaxTimes == 2

-----------------------------------------------------------------------------
(* Arithmetic and arrays *)

\* Python's int() of the rational num/den: truncation towards zero
PyInt(num, den) == IF num >= 0 THEN num \div den ELSE -((-num) \div den)

\* math.ceil of the rational num/den
Ceil(num, den) == -((-num) \div den)

\* a[idx] for an index array idx
Reindex(a, idx) == [i \in 1..Len(idx) |-> a[idx[i]]]

\* np.where(a == v)[0], as a set of positions
Where(a, v) == {i \in 1..Len(a) : a[i] = v}

\* the arrays of length 0..n over S
SeqsUpTo(S, n) == UNION {[1..k -> S] : k \in 0..n}

\* np.repeat(v, n)
Repeat(v, n) == [i \in 1..n |-> v]

\* the results of np.random.choice(S, k, replace=False) as index sets
KSubsets(S, k) == {T \in SUBSET S : Cardinality(T) = k}

\* the results of np.random.choice(S, k, replace=False) as arrays
KArrangements(S, k) ==
    {s \in [1..k -> S] : \A i, j \in 1..k : s[i] = s[j] => i = j}

\* how often v occurs in array a
Count(a, v) == Cardinality(Where(a, v))

Ok(Xa, ya) == [status |-> "ok", X |-> Xa, y |-> ya]
Raised(e) == [status |-> e, X |-> <<>>, y |-> <<>>]

-----------------------------------------------------------------------------
(* The robustness noise operators *)

\* Mutant: the flipped positions are drawn with replacement, so two draws of
\* one position flip a single label.
add_label_contamination_replace(Xa, ya, noise_ratio) ==
    IF noise_ratio[1] = 0
    THEN {Ok(Xa, ya)}
    ELSE LET k == PyInt(Len(ya) * noise_ratio[1], noise_ratio[2])
         IN {Ok(Xa, [i \in 1..Len(ya) |->
                        IF \E j \in 1..k : d[j] = i THEN 1 - ya[i] ELSE ya[i]])
                : d \in [1..k -> 1..Len(ya)]}

\* add_label_contamination(X, y, noise_ratio): the possible (X, y) returned.
\* y is flipped in place, so the caller's array is the returned one.
add_label_contamination(Xa, ya, noise_ratio) ==
    IF noise_ratio[1] = 0
    THEN {Ok(Xa, ya)}
    ELSE LET k == PyInt(Len(ya) * noise_ratio[1], noise_ratio[2])
         IN IF k < 0 \/ k > Len(ya)
            THEN {Raised("ValueError")}   \* np.random.choice cannot take the sample
            ELSE {Ok(Xa, [i \in 1..Len(ya) |->
                            IF i \in idx_flips THEN 1 - ya[i] ELSE ya[i]])
                    : idx_flips \in KSubsets(1..Len(ya), k)}

\* the arrays np.append(idx_n, np.random.choice(idx_a, k)) can be shuffled
\* into: every normal position once, and k draws (with replacement) from idx_a
ShuffledIdx(idx_n, idx_a, k) ==
    {idx \in [1..(Cardinality(idx_n) + k) -> idx_n \cup idx_a] :
        \A i \in idx_n : Cardinality({p \in DOMAIN idx : idx[p] = i}) = 1}

\* Mutant: the labels keep the unshuffled order of the index while the rows
\* are taken in the shuffled order.
add_duplicated_anomalies_misaligned(Xa, ya, duplicate_times) ==
    IF duplicate_times <= 1
    THEN {Ok(Xa, ya)}
    ELSE LET idx_n == Where(ya, 0)
             idx_a == Where(ya, 1)
             k == PyInt(Cardinality(idx_a) * duplicate_times, 1)
         IN {Ok(Reindex(Xa, idx),
                Repeat(0, Cardinality(idx_n)) \o Repeat(1, k))
                : idx \in ShuffledIdx(idx_n, idx_a, k)}

\* add_duplicated_anomalies(X, y, duplicate_times): the possible (X, y) returned
add_duplicated_anomalies(Xa, ya, duplicate_times) ==
    IF duplicate_times <= 1
    THEN {Ok(Xa, ya)}
    ELSE LET idx_n == Where(ya, 0)
             idx_a == Where(ya, 1)
             k == PyInt(Cardinality(idx_a) * duplicate_times, 1)
         IN {Ok(Reindex(Xa, idx), Reindex(ya, idx))
                : idx \in ShuffledIdx(idx_n, idx_a, k)}


\* the orders of a set S, as arrays
Perms(S) == KArrangements(S, Cardinality(S))

Noise(c) == [kind |-> "noise", of |-> c.of]

\* add_irrelevant_features(X, y, noise_ratio): the possible columns of the
\* returned X; its rows and y are returned as they are
add_irrelevant_features(ca, noise_ratio) ==
    IF noise_ratio[1] = 0
    THEN {ca}
    ELSE LET noise_dim == PyInt(noise_ratio[1] * Len(ca), noise_ratio[2] - noise_ratio[1])
         IN IF noise_dim > 0
            THEN {Reindex(ca \o [i \in 1..noise_dim |-> Noise(ca[src[i]])], idx)
                    : src \in [1..noise_dim -> 1..Len(ca)],
                      idx \in Perms(1..(Len(ca) + noise_dim))}
            ELSE {ca}

-----------------------------------------------------------------------------
(* The random generator *)

\* numpy's generator before any seeding
Unseeded == [seed |-> -1, pos |-> 0]

\* Utils.set_seed(seed): the state of numpy's generator after it
set_seed(seed) == [seed |-> seed, pos |-> 0]

\* the generator state after n more draws
Advance(r, n) == [r EXCEPT !.pos = @ + n]

-----------------------------------------------------------------------------
(* The outlier synthesizer *)

\* the component counts tried, list(np.arange(1, 10)): 1..9
MaxComponents == 9
\* the widest data the copula is fitted on
FeatureCap == 50

SynthModes == {"local", "cluster", "dependency", "global"}

\* a sampled row: its block, its place in the block, the sampler (by), the
\* generator state it was drawn in and the parameter that scales the draw
Sampled(blk, i, by, r, scale) ==
    [blk |-> blk, i |-> i, by |-> by, seed |-> r.seed, pos |-> r.pos, scale |-> scale]

SynOk(Xa, ya, r) == [status |-> "ok", X |-> Xa, y |-> ya, rng |-> r]
SynRaised(e, r) == [status |-> e, X |-> <<>>, y |-> <<>>, rng |-> r]

\* generate_realistic_synthetic(X, y, mode, alpha, percentage) on an object
\* with the given seed, called in generator state r on data of d columns:
\* the possible outcomes (the returned arrays and the generator state left).
\* Of X only the rows with y = 0 are read, and the sampled rows are new.
\*   sklearn: GaussianMixture(n_components=c).fit(X) raises ValueError when X
\*   has fewer than c rows, and gm.sample(n) raises ValueError when n < 1; a
\*   GaussianMixture with random_state=seed samples from a generator of its
\*   own, seeded anew with seed at every call of fit and of sample.
\*   copulas: fit and sample draw from numpy's global generator; whether a
\*   sample of size 0 is empty or an error is the library's (kde_sample_0).
generate_realistic_synthetic(seed, r, kde_sample_0, d, ya, mode, alpha, percentage) ==
    LET pts_n == Count(ya, 0)
        pts_a == Count(ya, 1)
        own == set_seed(seed)
        y_out == Repeat(0, pts_n) \o Repeat(1, pts_a)
    IN  IF mode \notin SynthModes
        THEN {SynRaised("NotImplementedError", r)}
        ELSE IF mode \in {"local", "cluster", "global"}
        THEN IF pts_n < MaxComponents
             THEN {SynRaised("ValueError", r)}        \* fit, line 75
             ELSE LET X_synthetic_normal ==
                          [i \in 1..pts_n |-> Sampled("normal", i, "gm", own, <<1, 1>>)]
                  IN IF mode \in {"local", "cluster"}
                     THEN IF pts_a < 1
                          THEN {SynRaised("ValueError", r)}   \* gm.sample(0), lines 106, 111
                          ELSE {SynOk(X_synthetic_normal \o
                                      [i \in 1..pts_a |-> Sampled("anomaly", i, mode, own, alpha)],
                                      y_out, r)}
                     ELSE \* global: one np.random.uniform draw of pts_a values per column
                          {SynOk(X_synthetic_normal \o
                                 [i \in 1..pts_a |-> Sampled("anomaly", i, "np.random.uniform", r, percentage)],
                                 y_out, IF pts_a > 0 THEN Advance(r, d) ELSE r)}
        ELSE \* dependency
             LET r1 == IF d > FeatureCap THEN Advance(r, 1) ELSE r    \* np.random.choice, line 90
                 d1 == IF d > FeatureCap THEN FeatureCap ELSE d
                 r2 == Advance(r1, 1)                                 \* copula.sample, line 97
                 X_synthetic_normal ==
                     [i \in 1..pts_n |-> Sampled("normal", i, "copula", r1, <<1, 1>>)]
             IN IF pts_n < 1
                THEN {SynRaised("ValueError", r1)}    \* copula.fit on no rows, line 94
                ELSE IF pts_a < 1
                THEN IF kde_sample_0 = "empty"
                     THEN {SynOk(X_synthetic_normal, y_out, r2)}
                     ELSE {SynRaised("ValueError", r2)}
                ELSE {SynOk(X_synthetic_normal \o
                            [i \in 1..pts_a |-> Sampled("anomaly", i, "kde", r2, <<1, 1>>)],
                            y_out, Advance(r2, d1))}

-----------------------------------------------------------------------------
(* generator(): the pipeline, one action per stage                          *)

\* rows of a loaded dataset
MaxRows == 3
\* columns of a loaded dataset
MaxCols == 1
\* the largest integer la
MaxLa == 2
\* the n_samples_threshold of the object
MaxThreshold == 2

DefaultSeed == 42
DefaultAlpha == 5
DefaultDuplicateTimes == 2
\* datasets above this many rows are subsampled to it
SubsampleLimit == 10000

Seeds == {DefaultSeed, DefaultSeed + 1}

\* rows 1..n, each a row of its own
Rows(n) == [i \in 1..n |-> i]

Labels(n) == UNION {[1..k -> {0, 1}] : k \in 0..n}

Feature(j) == [kind |-> "feature", of |-> j]

\* an entry of log: a seeding, a draw or a noise operator (op), what it was
\* applied to (on), the population and size of a draw, and the generator
\* state it was made in
Ev(op, on, n, size, r) ==
    [op |-> op, on |-> on, n |-> n, size |-> size, seed |-> r.seed, pos |-> r.pos]

FloatLa(num, den) == [type |-> "float", num |-> num, den |-> den]
IntLa(v) == [type |-> "int", num |-> v, den |-> 1]
NoLa == [type |-> "NoneType", num |-> 0, den |-> 1]

\* (la, at_least_one_labeled) of a call
LaArgs ==
    {<<NoLa, FALSE>>}
    \cup {<<FloatLa(f[1], f[2]), b>> : f \in {<<1, 3>>, <<1, 1>>}, b \in BOOLEAN}
    \cup {<<IntLa(v), FALSE>> : v \in 0..MaxLa}

\* (noise_type, duplicate_times, noise_ratio) of a call.  The default ratio,
\* 0.05, adds nothing to data this small, so a ratio that does is given with
\* the two noise types that read it.
NoiseArgs ==
    {<<nt, DefaultDuplicateTimes, <<1, 20>> >> :
        nt \in {None, "anomaly_contamination", "duplicated_anomalies"}}
    \cup {<<nt, DefaultDuplicateTimes, <<1, 2>> >> :
            nt \in {"irrelevant_features", "label_contamination"}}

GeneratorArgs ==
    {[la |-> l[1], at_least_one_labeled |-> l[2],
      realistic_synthetic_mode |-> m,
      noise_type |-> nz[1], duplicate_times |-> nz[2], noise_ratio |-> nz[3]]
        : l \in LaArgs, m \in {None, "dependency", "local", "other"}, nz \in NoiseArgs}

\* the precomputed dependency outliers of a dataset: label-sorted, as the
\* synthesizer returns them
DependencyTable ==
    {Repeat(0, n - b) \o Repeat(1, b) : <<n, b>> \in {nb \in (1..MaxRows) \X (0..MaxRows) : nb[2] <= nb[1]}}

NoPart == [idx_normal |-> {}, idx_anomaly |-> {}, idx_labeled_anomaly |-> {},
           idx_unlabeled_anomaly |-> {}, stage |-> "none"]

\* the call ends with exception e and returns nothing
Fail(e) ==
    /\ pc' = "raised"
    /\ raised' = e
    /\ result' = None

\* lines 200-286: seeding, loading, the type of la
G_load ==
    /\ pc = "start"
    /\ rng' = set_seed(self.seed)
    /\ log' = <<Ev("set_seed", "entry", 0, 0, set_seed(self.seed))>>
    /\ \E a \in GeneratorArgs :
        /\ args' = a
        /\ IF self.dataset = "unknown"
           THEN /\ Fail("NotImplementedError")
                /\ UNCHANGED <<X, y, cols>>
           ELSE \E ya \in Labels(MaxRows) \ {<<>>}, d \in 1..MaxCols :
                  /\ X' = Rows(Len(ya))
                  /\ y' = ya
                  /\ cols' = [j \in 1..d |-> Feature(j)]
                  /\ IF a.la.type \in {"float", "int"}
                     THEN pc' = "loaded" /\ UNCHANGED <<raised, result>>
                     ELSE Fail("NotImplementedError")
    /\ UNCHANGED <<self, n_rows, call, X_train, y_train, X_test, y_test,
                   cols_train, cols_test, part>>

\* lines 288-302: duplication of a small dataset, subsampling of a large one
G_size_normalize ==
    /\ pc = "loaded"
    /\ LET small == Len(y) < self.n_samples_threshold /\ self.generate_duplicates
           seeded == set_seed(self.seed)
       IN \E idx_duplicate \in IF small
                               THEN [1..self.n_samples_threshold -> 1..Len(y)]
                               ELSE {<<>>} :
            LET X1 == IF small THEN Reindex(X, idx_duplicate) ELSE X
                y1 == IF small THEN Reindex(y, idx_duplicate) ELSE y
                r1 == IF small THEN Advance(seeded, 1) ELSE rng
                log1 == IF small
                        THEN log \o <<Ev("set_seed", "duplicate", 0, 0, seeded),
                                      Ev("choice", "duplicate", Len(y),
                                         self.n_samples_threshold, seeded)>>
                        ELSE log
                large == Len(y1) > SubsampleLimit
            IN \E idx_sample \in IF large
                                 THEN KArrangements(1..Len(y1), SubsampleLimit)
                                 ELSE {<<>>} :
                 /\ X' = IF large THEN Reindex(X1, idx_sample) ELSE X1
                 /\ y' = IF large THEN Reindex(y1, idx_sample) ELSE y1
                 /\ rng' = IF large THEN Advance(seeded, 1) ELSE r1
                 /\ log' = IF large
                           THEN log1 \o <<Ev("set_seed", "subsample", 0, 0, seeded),
                                          Ev("choice", "subsample", Len(y1),
                                             SubsampleLimit, seeded)>>
                           ELSE log1
    /\ pc' = "sized"
    /\ UNCHANGED <<self, n_rows, call, args, cols, X_train, y_train, X_test, y_test,
                   cols_train, cols_test, part, raised, result>>

\* lines 304-319: the synthetic outliers
G_synthesize ==
    /\ pc = "sized"
    /\ IF args.realistic_synthetic_mode = None
       THEN /\ pc' = "synthesized"
            /\ UNCHANGED <<X, y, rng, raised, result>>
       ELSE IF args.realistic_synthetic_mode = "dependency"
       THEN \/ /\ Fail("NotImplementedError")      \* the dataset is not in the table
               /\ UNCHANGED <<X, y, rng>>
            \/ \E ya \in DependencyTable :
                 /\ X' = Rows(Len(ya))
                 /\ y' = ya
                 /\ pc' = "synthesized"
                 /\ UNCHANGED <<rng, raised, result>>
       ELSE \E out \in UNION {generate_realistic_synthetic(
                           self.seed, rng, k0, Len(cols), y,
                           args.realistic_synthetic_mode, <<DefaultAlpha, 1>>, <<1, 10>>)
                              : k0 \in {"empty", "raises"}} :
              /\ rng' = out.rng
              /\ IF out.status = "ok"
                 THEN /\ X' = out.X
                      /\ y' = out.y
                      /\ pc' = "synthesized"
                      /\ UNCHANGED <<raised, result>>
                 ELSE /\ Fail(out.status)
                      /\ UNCHANGED <<X, y>>
    /\ UNCHANGED <<self, n_rows, call, args, cols, X_train, y_train, X_test, y_test,
                   cols_train, cols_test, part, log>>

\* Mutant: the duplication commented out at line 326 is made, on the whole
\* dataset, before the split.
noise_before_split_duplicating(nt, ca, Xa, ya, times, ratio) ==
    IF nt = "duplicated_anomalies"
    THEN {[status |-> o.status, X |-> o.X, y |-> o.y, cols |-> ca,
           ops |-> <<"add_duplicated_anomalies">>]
            : o \in add_duplicated_anomalies(Xa, ya, times)}
    ELSE IF nt = "irrelevant_features"
    THEN {[status |-> "ok", X |-> Xa, y |-> ya, cols |-> c,
           ops |-> <<"add_irrelevant_features">>]
            : c \in add_irrelevant_features(ca, ratio)}
    ELSE {[status |-> IF nt \in {None, "label_contamination"}
                      THEN "ok" ELSE "NotImplementedError",
           X |-> Xa, y |-> ya, cols |-> ca, ops |-> <<>>]}

\* lines 321-336: the noise added before the split, with the operators called
noise_before_split(nt, ca, Xa, ya, times, ratio) ==
    IF nt = "irrelevant_features"
    THEN {[status |-> "ok", X |-> Xa, y |-> ya, cols |-> c,
           ops |-> <<"add_irrelevant_features">>]
            : c \in add_irrelevant_features(ca, ratio)}
    ELSE {[status |-> IF nt \in {None, "duplicated_anomalies", "label_contamination"}
                      THEN "ok" ELSE "NotImplementedError",
           X |-> Xa, y |-> ya, cols |-> ca, ops |-> <<>>]}

\* lines 321-341
G_noise_before_split ==
    /\ pc = "synthesized"
    /\ \E o \in noise_before_split(args.noise_type, cols, X, y,
                                   args.duplicate_times, args.noise_ratio) :
         /\ X' = o.X
         /\ y' = o.y
         /\ cols' = o.cols
         /\ log' = log \o [i \in 1..Len(o.ops) |-> Ev(o.ops[i], "all", 0, 0, rng)]
         /\ rng' = Advance(rng, Len(o.ops))
         /\ IF o.status = "ok"
            THEN pc' = "noised" /\ UNCHANGED <<raised, result>>
            ELSE Fail(o.status)
    /\ UNCHANGED <<self, n_rows, call, args, X_train, y_train, X_test, y_test,
                   cols_train, cols_test, part>>

\* train_test_split(X, y, test_size, shuffle=True, stratify=y): the possible
\* (train, test) index arrays.  The test split has ceil(test_size * n) rows and
\* the train split the rest; the anomalies are shared out in proportion, the
\* odd one going to the class with the larger remainder.  The classes too
\* small for sklearn to stratify are split all the same.
train_test_split(ya, test_size) ==
    LET n == Len(ya)
        n_test == Ceil(n * test_size[1], test_size[2])
        n_train == n - n_test
        a == Count(ya, 1)
        fa == (a * n_train) \div n
        ra == (a * n_train) % n
        rb == ((n - a) * n_train) % n
        a_train == IF ra = 0 THEN {fa}
                   ELSE IF ra > rb THEN {fa + 1}
                   ELSE IF ra < rb THEN {fa}
                   ELSE {fa, fa + 1}
    IN IF n = 0 \/ n_train = 0
       THEN {}
       ELSE {<<tr, te>> \in KArrangements(1..n, n_train) \X KArrangements(1..n, n_test) :
                /\ \A i \in 1..n_train, j \in 1..n_test : tr[i] # te[j]
                /\ Count(Reindex(ya, tr), 1) \in a_train}

\* lines 343-344
G_split ==
    /\ pc = "noised"
    /\ LET splits == train_test_split(y, self.test_size)
       IN IF splits = {}
          THEN /\ Fail("ValueError")
               /\ UNCHANGED <<X_train, y_train, X_test, y_test, cols_train, cols_test, log>>
          ELSE \E s \in splits :
                 /\ X_train' = Reindex(X, s[1])
                 /\ y_train' = Reindex(y, s[1])
                 /\ X_test' = Reindex(X, s[2])
                 /\ y_test' = Reindex(y, s[2])
                 /\ cols_train' = cols
                 /\ cols_test' = cols
                 /\ log' = Append(log, Ev("train_test_split", "all", 0, 0, rng))
                 /\ pc' = "split"
                 /\ UNCHANGED <<raised, result>>
    /\ rng' = Advance(rng, 1)
    /\ UNCHANGED <<self, n_rows, call, args, X, y, cols, part>>

\* Mutant: the labels of the test split are contaminated as well.
noise_after_split_contaminating_test(nt, Xtr, ytr, Xte, yte, times, ratio) ==
    IF nt = "label_contamination"
    THEN {[train |-> tr, test |-> te,
           ops |-> << <<"add_label_contamination", "train">>,
                      <<"add_label_contamination", "test">> >>]
            : tr \in add_label_contamination(Xtr, ytr, ratio),
              te \in add_label_contamination(Xte, yte, <<1, 1>>)}
    ELSE {[train |-> Ok(Xtr, ytr), test |-> Ok(Xte, yte), ops |-> <<>>]}

\* lines 346-353: the noise added after the split, with the operators called
noise_after_split(nt, Xtr, ytr, Xte, yte, times, ratio) ==
    IF nt = "duplicated_anomalies"
    THEN {[train |-> tr, test |-> te,
           ops |-> << <<"add_duplicated_anomalies", "train">>,
                      <<"add_duplicated_anomalies", "test">> >>]
            : tr \in add_duplicated_anomalies(Xtr, ytr, times),
              te \in add_duplicated_anomalies(Xte, yte, times)}
    ELSE IF nt = "label_contamination"
    THEN {[train |-> tr, test |-> Ok(Xte, yte),
           ops |-> << <<"add_label_contamination", "train">> >>]
            : tr \in add_label_contamination(Xtr, ytr, ratio)}
    ELSE {[train |-> Ok(Xtr, ytr), test |-> Ok(Xte, yte), ops |-> <<>>]}

\* lines 346-358; the scaler changes the values of the rows, not which rows
\* the arrays hold nor their labels
G_noise_after_split ==
    /\ pc = "split"
    /\ \E o \in noise_after_split(args.noise_type, X_train, y_train, X_test, y_test,
                                  args.duplicate_times, args.noise_ratio) :
         /\ log' = log \o [i \in 1..Len(o.ops) |-> Ev(o.ops[i][1], o.ops[i][2], 0, 0, rng)]
         /\ rng' = Advance(rng, Len(o.ops))
         /\ IF o.train.status = "ok" /\ o.test.status = "ok"
            THEN /\ X_train' = o.train.X
                 /\ y_train' = o.train.y
                 /\ X_test' = o.test.X
                 /\ y_test' = o.test.y
                 /\ pc' = "scaled"
                 /\ UNCHANGED <<raised, result>>
            ELSE /\ Fail("ValueError")
                 /\ UNCHANGED <<X_train, y_train, X_test, y_test>>
    /\ UNCHANGED <<self, n_rows, call, args, X, y, cols, cols_train, cols_test, part>>

\* Mutant: at_least_one_labeled is ignored and the product always truncated.
target_count_truncating(la, at_least_one_labeled, n_anomaly) ==
    PyInt(la.num * n_anomaly, la.den)

\* lines 364-373: the number of anomalies to label
target_count(la, at_least_one_labeled, n_anomaly) ==
    IF la.type = "float"
    THEN IF at_least_one_labeled
         THEN Ceil(la.num * n_anomaly, la.den)
         ELSE PyInt(la.num * n_anomaly, la.den)
    ELSE la.num

\* Mutant: an integer la equal to the number of anomalies is refused too.
insufficient_anomalies_strict(la, n_anomaly) ==
    la.type = "int" /\ la.num >= n_anomaly

\* line 370: an integer la above the number of anomalies of the train split
insufficient_anomalies(la, n_anomaly) ==
    la.type = "int" /\ la.num > n_anomaly

\* lines 360-380: the anomalies of the train split that stay labeled
G_select_labeled ==
    /\ pc = "scaled"
    /\ LET idx_normal == Where(y_train, 0)
           idx_anomaly == Where(y_train, 1)
           k == target_count(args.la, args.at_least_one_labeled, Cardinality(idx_anomaly))
           found == [idx_normal |-> idx_normal, idx_anomaly |-> idx_anomaly,
                     idx_labeled_anomaly |-> {}, idx_unlabeled_anomaly |-> {},
                     stage |-> "indexed"]
       IN IF args.la.type \notin {"float", "int"}
          THEN Fail("NotImplementedError") /\ part' = found
          ELSE IF insufficient_anomalies(args.la, Cardinality(idx_anomaly))
          THEN Fail("AssertionError") /\ part' = found
          ELSE IF k < 0 \/ k > Cardinality(idx_anomaly)
          THEN Fail("ValueError") /\ part' = found      \* np.random.choice
          ELSE \E idx_labeled_anomaly \in KSubsets(idx_anomaly, k) :
                 IF args.noise_type = "anomaly_contamination"
                 THEN \* remove_anomaly_contamination is not a method of the class
                      Fail("AttributeError") /\ part' = found
                 ELSE /\ part' = [found EXCEPT
                                    !.idx_labeled_anomaly = idx_labeled_anomaly,
                                    !.idx_unlabeled_anomaly = idx_anomaly \ idx_labeled_anomaly,
                                    !.stage = "selected"]
                      /\ pc' = "selected"
                      /\ UNCHANGED <<raised, result>>
    /\ rng' = Advance(rng, 1)
    /\ UNCHANGED <<self, n_rows, call, args, X, y, cols, X_train, y_train, X_test, y_test,
                   cols_train, cols_test, log>>

\* Mutant: the unlabeled rows are not reset to 0.
assign_labels_keeping_unlabeled(ya, idx_unlabeled, idx_labeled_anomaly) ==
    [i \in 1..Len(ya) |-> IF i \in idx_labeled_anomaly THEN 1 ELSE ya[i]]

\* lines 388-389: y_train[idx_unlabeled] = 0; y_train[idx_labeled_anomaly] = 1
assign_labels(ya, idx_unlabeled, idx_labeled_anomaly) ==
    LET y0 == [i \in 1..Len(ya) |-> IF i \in idx_unlabeled THEN 0 ELSE ya[i]]
    IN [i \in 1..Len(ya) |-> IF i \in idx_labeled_anomaly THEN 1 ELSE y0[i]]

\* lines 382-391: the observed labels, and the returned record
G_assign_labels ==
    /\ pc = "selected"
    /\ LET idx_unlabeled == part.idx_normal \cup part.idx_unlabeled_anomaly
           y_new == assign_labels(y_train, idx_unlabeled, part.idx_labeled_anomaly)
       IN /\ y_train' = y_new
          /\ result' = [X_train |-> X_train, y_train |-> y_new,
                        X_test |-> X_test, y_test |-> y_test]
    /\ part' = [part EXCEPT !.stage = "assigned"]
    /\ pc' = "returned"
    /\ UNCHANGED <<self, rng, n_rows, call, args, X, y, cols, X_train, X_test, y_test,
                   cols_train, cols_test, log, raised>>

Selves(seeds, thresholds) ==
    [seed : seeds, dataset : {"cardio", "unknown"}, test_size : {<<3, 10>>},
     generate_duplicates : BOOLEAN, n_samples_threshold : thresholds]

GenStart ==
    /\ args = None /\ X = <<>> /\ y = <<>> /\ cols = <<>>
    /\ X_train = <<>> /\ y_train = <<>> /\ X_test = <<>> /\ y_test = <<>>
    /\ cols_train = <<>> /\ cols_test = <<>>
    /\ part = NoPart /\ log = <<>> /\ raised = None /\ result = None

Init ==
    /\ self \in Selves({DefaultSeed}, {MaxThreshold})
    /\ rng = Unseeded
    /\ n_rows = 0
    /\ call = [method |-> "generator"]
    /\ pc = "start"
    /\ GenStart

Next ==
    \/ G_load
    \/ G_size_normalize
    \/ G_synthesize
    \/ G_noise_before_split
    \/ G_split
    \/ G_noise_after_split
    \/ G_select_labeled
    \/ G_assign_labels

Spec == Init /\ [][Next]_vars

-----------------------------------------------------------------------------
(* SpecSeed: generator() up to the end of size normalization, on datasets of *)
(* the sizes the thresholds are about.  A dataset is held by its number of   *)
(* rows; a draw is held in log by its population, its size and the generator *)
(* state it was made in, which fix the rows it picks.  The stages after size *)
(* normalization are held by the number of draws they make, and generator()  *)
(* may be called again on the same object.                                   *)

\* the default n_samples_threshold
DefaultThreshold == 1000
\* draws made by the stages after size normalization
MaxLaterDraws == 2

LoadedSizes ==
    {DefaultThreshold \div 2, DefaultThreshold, SubsampleLimit,
     SubsampleLimit + 1, SubsampleLimit + DefaultThreshold}

SeedArgs ==
    {[la |-> l, at_least_one_labeled |-> FALSE, realistic_synthetic_mode |-> m,
      noise_type |-> None, duplicate_times |-> DefaultDuplicateTimes,
      noise_ratio |-> <<1, 20>>]
        : l \in {NoLa, FloatLa(1, 10), IntLa(5)}, m \in {None, "global"}}

\* lines 200-286: seeding, loading, the type of la
S_load ==
    /\ pc \in {"start", "returned", "raised"}
    /\ rng' = set_seed(self.seed)
    /\ \E a \in SeedArgs :
        /\ args' = a
        /\ IF self.dataset = "unknown"
           THEN /\ Fail("NotImplementedError")
                /\ n_rows' = 0
                /\ log' = <<Ev("set_seed", "entry", 0, 0, set_seed(self.seed))>>
           ELSE \E n \in LoadedSizes :
                  /\ n_rows' = n
                  /\ log' = <<Ev("set_seed", "entry", 0, 0, set_seed(self.seed)),
                              Ev("load", "all", n, 0, set_seed(self.seed))>>
                  /\ IF a.la.type \in {"float", "int"}
                     THEN pc' = "loaded" /\ raised' = None /\ result' = None
                     ELSE Fail("NotImplementedError")
    /\ UNCHANGED <<self, call, X, y, cols, X_train, y_train, X_test, y_test,
                   cols_train, cols_test, part>>

\* lines 288-294: a dataset below the threshold is resampled up to it
S_duplicate ==
    /\ pc = "loaded"
    /\ IF n_rows < self.n_samples_threshold /\ self.generate_duplicates
       THEN /\ log' = log \o <<Ev("set_seed", "duplicate", 0, 0, set_seed(self.seed)),
                               Ev("choice", "duplicate", n_rows,
                                  self.n_samples_threshold, set_seed(self.seed))>>
            /\ rng' = Advance(set_seed(self.seed), 1)
            /\ n_rows' = self.n_samples_threshold
       ELSE UNCHANGED <<log, rng, n_rows>>
    /\ pc' = "duplicated"
    /\ UNCHANGED <<self, call, args, X, y, cols, X_train, y_train, X_test, y_test,
                   cols_train, cols_test, part, raised, result>>

\* Mutant: the seed is not set again before the subsampling draw.
S_subsample_unseeded ==
    /\ pc = "duplicated"
    /\ IF n_rows > SubsampleLimit
       THEN /\ log' = Append(log, Ev("choice", "subsample", n_rows, SubsampleLimit, rng))
            /\ rng' = Advance(rng, 1)
            /\ n_rows' = SubsampleLimit
       ELSE UNCHANGED <<log, rng, n_rows>>
    /\ pc' = "sized"
    /\ UNCHANGED <<self, call, args, X, y, cols, X_train, y_train, X_test, y_test,
                   cols_train, cols_test, part, raised, result>>

\* lines 296-302: a dataset above 10000 rows is subsampled to 10000
S_subsample ==
    /\ pc = "duplicated"
    /\ IF n_rows > SubsampleLimit
       THEN /\ log' = log \o <<Ev("set_seed", "subsample", 0, 0, set_seed(self.seed)),
                               Ev("choice", "subsample", n_rows, SubsampleLimit,
                                  set_seed(self.seed))>>
            /\ rng' = Advance(set_seed(self.seed), 1)
            /\ n_rows' = SubsampleLimit
       ELSE UNCHANGED <<log, rng, n_rows>>
    /\ pc' = "sized"
    /\ UNCHANGED <<self, call, args, X, y, cols, X_train, y_train, X_test, y_test,
                   cols_train, cols_test, part, raised, result>>

\* lines 304-391: the later stages draw, and the call returns or raises
S_rest ==
    /\ pc = "sized"
    /\ \E k \in 0..MaxLaterDraws : rng' = Advance(rng, k)
    /\ \/ pc' = "returned" /\ result' = [n_rows |-> n_rows] /\ UNCHANGED raised
       \/ \E e \in {"ValueError", "AssertionError"} : Fail(e)
    /\ UNCHANGED <<self, n_rows, call, args, X, y, cols, X_train, y_train, X_test, y_test,
                   cols_train, cols_test, part, log>>

InitSeed ==
    /\ self \in Selves(Seeds, {DefaultThreshold, SubsampleLimit + 2 * DefaultThreshold})
    /\ rng = Unseeded
    /\ n_rows = 0
    /\ call = [method |-> "generator"]
    /\ pc = "start"
    /\ GenStart

NextSeed ==
    \/ S_load
    \/ S_duplicate
    \/ S_subsample
    \/ S_rest

SpecSeed == InitSeed /\ [][NextSeed]_vars

-----------------------------------------------------------------------------
(* SpecCalls: a client constructs a DataGenerator and calls one of its       *)
(* methods on arrays of its own; the synthesizer may be called a second time *)
(* with the same arguments.                                                  *)

\* rows of the data handed to the synthesizer
MaxSynRows == 10
\* calls of the synthesizer in a row
MaxSynCalls == 2

Ratios == {<<0, 1>>, <<1, 20>>, <<1, 3>>, <<1, 2>>, <<1, 1>>}

GenIdle == pc = "idle" /\ GenStart

NoCall == [method |-> "none"]

\* what copulas does on a sample of size 0
KdeSample0 == {"empty", "raises"}

InitCalls ==
    /\ self \in Selves(Seeds, {1000})
    /\ rng = set_seed(self.seed)        \* the client has seeded, as generator() does
    /\ n_rows = 0
    /\ call = NoCall
    /\ GenIdle

Call_add_label_contamination ==
    /\ call = NoCall
    /\ \E ya \in Labels(MaxOpRows), noise_ratio \in Ratios :
         \E out \in add_label_contamination(Rows(Len(ya)), ya, noise_ratio) :
            call' = [method |-> "add_label_contamination",
                     X |-> Rows(Len(ya)), y |-> ya, noise_ratio |-> noise_ratio,
                     out |-> out]
    /\ rng' = Advance(rng, 1)
    /\ UNCHANGED <<self, n_rows, genVars>>

Call_add_duplicated_anomalies ==
    /\ call = NoCall
    /\ \E ya \in Labels(MaxDupRows), duplicate_times \in 0..MaxTimes :
         \E out \in add_duplicated_anomalies(Rows(Len(ya)), ya, duplicate_times) :
            call' = [method |-> "add_duplicated_anomalies",
                     X |-> Rows(Len(ya)), y |-> ya, duplicate_times |-> duplicate_times,
                     out |-> out]
    /\ rng' = Advance(rng, 1)
    /\ UNCHANGED <<self, n_rows, genVars>>

Call_generate_realistic_synthetic ==
    /\ call = NoCall
    /\ \E ya \in Labels(MaxSynRows), d \in {1, FeatureCap + 1},
          mode \in SynthModes \cup {"other"}, k0 \in KdeSample0 :
         \E out \in generate_realistic_synthetic(self.seed, rng, k0, d, ya, mode,
                                                 <<DefaultAlpha, 1>>, <<1, 10>>) :
            /\ call' = [method |-> "generate_realistic_synthetic", kde_sample_0 |-> k0,
                        d |-> d, y |-> ya, mode |-> mode, outs |-> <<out>>]
            /\ rng' = out.rng
    /\ UNCHANGED <<self, n_rows, genVars>>

\* the same call once more, on the same object, with nothing in between
Call_generate_realistic_synthetic_again ==
    /\ call.method = "generate_realistic_synthetic"
    /\ Len(call.outs) < MaxSynCalls
    /\ \E out \in generate_realistic_synthetic(self.seed, rng, call.kde_sample_0, call.d, call.y, call.mode,
                                               <<DefaultAlpha, 1>>, <<1, 10>>) :
            /\ call' = [call EXCEPT !.outs = Append(@, out)]
            /\ rng' = out.rng
    /\ UNCHANGED <<self, n_rows, genVars>>

NextCalls ==
    \/ Call_add_label_contamination
    \/ Call_add_duplicated_anomalies
    \/ Call_generate_realistic_synthetic
    \/ Call_generate_realistic_synthetic_again

SpecCalls == InitCalls /\ [][NextCalls]_vars


-----------------------------------------------------------------------------
(* Claims about generator() (Spec) *)

\* the label a row had when train_test_split was called (X and y are the
\* arrays the split was made of; copies of a row carry its id)
LabelAtSplit(row) == y[CHOOSE p \in 1..Len(X) : X[p] = row]

Ops(op, on) == {i \in 1..Len(log) : log[i].op = op /\ log[i].on = on}

SplitDone == pc \in {"split", "scaled", "selected", "returned"}
NoiseDone == pc \in {"scaled", "selected", "returned"}

\* C1: whatever noise_type is given, every row of y_test, and of the y_test
\* returned, carries the label the row had when the split was made, and
\* add_label_contamination is never called on the test split.
C1_TestLabelsAreGroundTruth ==
    /\ \A i \in 1..Len(y_test) : y_test[i] = LabelAtSplit(X_test[i])
    /\ pc = "returned" =>
          /\ result.X_test = X_test
          /\ result.y_test = y_test
    /\ Ops("add_label_contamination", "test") = {}
    /\ \A i \in Ops("add_label_contamination", "train") :
          \E s \in Ops("train_test_split", "all") : s < i

\* a run returned in which label contamination flipped a train label
C1_Witness ==
    /\ pc = "returned"
    /\ args.noise_type = "label_contamination"
    /\ Ops("add_label_contamination", "train") # {}
    /\ Len(result.y_test) >= 1
    /\ \E i \in 1..Len(X_train) : LabelAtSplit(X_train[i]) = 0 /\ i \in part.idx_anomaly

\* the rows of the train split that are anomalies in the ground truth
TrueAnomalies == {i \in 1..Len(X_train) : LabelAtSplit(X_train[i]) = 1}

Partitioned ==
    /\ part.idx_labeled_anomaly \cap part.idx_unlabeled_anomaly = {}
    /\ Cardinality(part.idx_labeled_anomaly) =
          target_count(args.la, args.at_least_one_labeled, Cardinality(part.idx_anomaly))
    /\ \A i \in 1..Len(result.y_train) :
          result.y_train[i] = IF i \in part.idx_labeled_anomaly THEN 1 ELSE 0

\* C2 (as claimed): in a successful run the labeled and unlabeled anomaly
\* sets are disjoint, their union is all true anomalies of the train split,
\* the labeled set has the target count of elements, and the returned y_train
\* is 1 on the labeled anomalies and 0 on every other row.
C2_PartitionOfTrueAnomalies ==
    pc = "returned" =>
        /\ Partitioned
        /\ part.idx_labeled_anomaly \cup part.idx_unlabeled_anomaly = TrueAnomalies

\* C2 (amended): in a successful run the labeled and unlabeled anomaly sets
\* are disjoint, their union is the rows of the train split labelled 1 when
\* the partition is made (after label contamination, if any; these are the
\* true anomalies when noise_type is not label_contamination), the labeled
\* set has the target count of elements, and the returned y_train is 1 on the
\* labeled anomalies and 0 on every other row.
C2_PartitionOfObservedAnomalies ==
    /\ pc = "selected" =>
          /\ part.idx_anomaly = Where(y_train, 1)
          /\ part.idx_normal = Where(y_train, 0)
    /\ pc \in {"selected", "returned"} =>
          /\ part.idx_labeled_anomaly \cap part.idx_unlabeled_anomaly = {}
          /\ part.idx_labeled_anomaly \cup part.idx_unlabeled_anomaly = part.idx_anomaly
          /\ args.noise_type # "label_contamination" => part.idx_anomaly = TrueAnomalies
    /\ pc = "returned" => Partitioned

\* a run returned with one anomaly labeled and another left unlabeled
C2_Witness ==
    /\ pc = "returned"
    /\ part.idx_labeled_anomaly # {}
    /\ part.idx_unlabeled_anomaly # {}
    /\ part.idx_normal # {}

\* ceil and floor of num / den, by their defining inequalities
CeilOf(num, den) == CHOOSE k \in 0..num : k * den >= num /\ (k - 1) * den < num
FloorOf(num, den) == CHOOSE k \in 0..num : k * den <= num /\ (k + 1) * den > num

NoiseOps == {"add_irrelevant_features", "add_duplicated_anomalies", "add_label_contamination"}

\* C5: add_irrelevant_features runs only on the whole dataset and before
\* train_test_split, exactly once when that noise is asked for, and the two
\* splits have the same columns; add_duplicated_anomalies never runs before
\* the split, and runs once on the train split and once on the test split
\* after it; no noise operator runs when noise_type is None.
C5_NoiseSequencing ==
    /\ \A i \in 1..Len(log) :
          /\ log[i].op = "add_irrelevant_features" =>
                /\ log[i].on = "all"
                /\ \A s \in Ops("train_test_split", "all") : i < s
          /\ log[i].op = "add_duplicated_anomalies" =>
                /\ log[i].on \in {"train", "test"}
                /\ \E s \in Ops("train_test_split", "all") : s < i
    /\ SplitDone =>
          /\ Cardinality(Ops("train_test_split", "all")) = 1
          /\ cols_train = cols_test
          /\ cols_train = cols
          /\ Cardinality(Ops("add_irrelevant_features", "all")) =
                IF args.noise_type = "irrelevant_features" THEN 1 ELSE 0
    /\ NoiseDone =>
          \A on \in {"train", "test"} :
             Cardinality(Ops("add_duplicated_anomalies", on)) =
                IF args.noise_type = "duplicated_anomalies" THEN 1 ELSE 0
    /\ (pc # "start" /\ args.noise_type = None) =>
          \A i \in 1..Len(log) : log[i].op \notin NoiseOps

\* a run returned whose anomalies were duplicated in both splits
C5_Witness ==
    /\ pc = "returned"
    /\ args.noise_type = "duplicated_anomalies"
    /\ \E i, j \in 1..Len(X_train) : i # j /\ X_train[i] = X_train[j]
    /\ \E i, j \in 1..Len(X_test) : i # j /\ X_test[i] = X_test[j]
    /\ Len(X_train) + Len(X_test) > Len(X)

-----------------------------------------------------------------------------
(* Claims about the seeding of generator() (SpecSeed) *)

Draws == {i \in 1..Len(log) : log[i].op = "choice"}

\* the size normalization draws of a run: a function of the seed, the loaded
\* length and the two size options of the object
SizeDrawsOf(seed, n, threshold, generate_duplicates) ==
    LET small == n < threshold /\ generate_duplicates
        n1 == IF small THEN threshold ELSE n
    IN (IF small
        THEN <<Ev("choice", "duplicate", n, threshold, set_seed(seed))>>
        ELSE <<>>)
       \o (IF n1 > SubsampleLimit
           THEN <<Ev("choice", "subsample", n1, SubsampleLimit, set_seed(seed))>>
           ELSE <<>>)

IsChoice(e) == e.op = "choice"

\* C10: every run of generator() starts by setting the seed, and each size
\* normalization draw is made right after the seed is set again, in the
\* state the seed gives; so the draws of size normalization are fixed by the
\* seed, the loaded dataset and the size options alone, whatever the other
\* arguments and whatever was drawn before the call.
C10_SeedBeforeSizeDraws ==
    /\ log # <<>> =>
          (log[1].op = "set_seed" /\ log[1].seed = self.seed /\ log[1].pos = 0)
    /\ \A i \in Draws :
          /\ i > 1
          /\ log[i - 1].op = "set_seed"
          /\ log[i - 1].seed = self.seed
          /\ log[i].seed = self.seed
          /\ log[i].pos = 0
    /\ (pc \in {"sized", "returned"} /\ Len(log) >= 2 /\ log[2].op = "load") =>
          SelectSeq(log, IsChoice) =
             SizeDrawsOf(self.seed, log[2].n, self.n_samples_threshold,
                         self.generate_duplicates)

\* a run on a dataset that is first resampled up
\* to the threshold and then subsampled, with draws made after it
C10_Witness ==
    /\ pc = "returned"
    /\ Cardinality(Draws) = 2
    /\ \E i \in Draws : log[i].on = "subsample" /\ log[i].n > SubsampleLimit
    /\ rng.pos > 1

-----------------------------------------------------------------------------
(* Claims about the methods called on their own (SpecCalls) *)

IsCall(m) == call.method = m

\* the positions whose label the call changed
Flipped == {i \in 1..Len(call.y) : call.out.y[i] # call.y[i]}

SourceOf(p) == CHOOSE i \in 1..Len(call.X) : call.X[i] = call.out.X[p]

\* C7: add_duplicated_anomalies with duplicate_times <= 1 returns (X, y) as
\* given; otherwise the result holds every normal row of the input exactly
\* once and exactly floor(|anomaly rows| * duplicate_times) anomaly rows, each
\* a copy of an anomaly row of the input, and every returned row carries the
\* label of the row it is a copy of.
C7_DuplicationKeepsRowsAligned ==
    IsCall("add_duplicated_anomalies") =>
        /\ call.out.status = "ok"
        /\ call.duplicate_times <= 1 => (call.out.X = call.X /\ call.out.y = call.y)
        /\ call.duplicate_times > 1 =>
            /\ Len(call.out.X) = Len(call.out.y)
            /\ \A i \in Where(call.y, 0) :
                  Cardinality({p \in 1..Len(call.out.X) : call.out.X[p] = call.X[i]}) = 1
            /\ Count(call.out.y, 1) = Count(call.y, 1) * call.duplicate_times
            /\ \A p \in 1..Len(call.out.X) :
                  /\ \E i \in 1..Len(call.X) : call.X[i] = call.out.X[p]
                  /\ call.out.y[p] = call.y[SourceOf(p)]

\* a duplication that put the one anomaly first, twice in a row, before the
\* normal row
C7_Witness ==
    /\ IsCall("add_duplicated_anomalies")
    /\ call.duplicate_times = 2
    /\ Count(call.y, 0) = 1 /\ Count(call.y, 1) = 1
    /\ Len(call.out.X) = 3
    /\ call.out.y[1] = 1
    /\ call.out.X[1] = call.out.X[2]

\* C8 (as claimed): for each of the four modes the synthesizer returns
\* n_normal_target + n_anomaly_target rows labelled with one block of zeros
\* followed by one block of ones, a block being empty when its target is 0;
\* any other mode fails with the unsupported-mode error.
C8_SynthesizerBlocks ==
    (IsCall("generate_realistic_synthetic") /\ Len(call.outs) = 1) =>
        LET out == call.outs[1]
            n_normal_target == Count(call.y, 0)
            n_anomaly_target == Count(call.y, 1)
        IN IF call.mode \in SynthModes
           THEN /\ out.status = "ok"
                /\ Len(out.X) = n_normal_target + n_anomaly_target
                /\ out.y = Repeat(0, n_normal_target) \o Repeat(1, n_anomaly_target)
           ELSE out.status = "NotImplementedError"

\* C9 (as claimed): two calls of the synthesizer with the same seed and the
\* same arguments, made one after the other on the same object, return the
\* same arrays, whatever the mode.
C9_SynthesizerDeterministic ==
    (IsCall("generate_realistic_synthetic") /\ Len(call.outs) = 2) =>
        /\ call.outs[1].status = call.outs[2].status
        /\ call.outs[1].X = call.outs[2].X
        /\ call.outs[1].y = call.outs[2].y

=============================================================================
